---- MODULE Spec2Model ----
(***************************************************************************)
(* smooth-bevy-cameras: the first-person (fps_3d) and orbit camera         *)
(* controllers, their default input mappers, their control-event reducers  *)
(* (control_system), the per-style event queue they share with the host,   *)
(* and the InputBehavior run-criteria flag.                                *)
(*                                                                         *)
(* Numbers.  f32 positions are integers (one unit = 0.1 world units).      *)
(* Unit vectors are fixed-point with Fix fractional units, so the look     *)
(* direction (0, 0.8, 0.6) is <<0, 4, 3>>.  Angles are indices into the    *)
(* table of the rational points of the unit circle: yaw in quarter turns,  *)
(* pitch in the steps 0, asin(3/5), asin(4/5), pi/2.  On that grid sin,    *)
(* cos, sqrt and normalize are exact, so no statement below rests on a     *)
(* rounding; steps whose result would leave the grid are not taken.        *)
(***************************************************************************)
EXTENDS Integers, Sequences, FiniteSets, TLC

\* ------------------------------------------------------------ bounds
MaxTicks == 2          \* frames the app runs
MaxRigs == 2           \* entities carrying a controller, per style
MaxCoord == 10         \* |coordinate| of eye and target
MaxSamples == 2        \* raw motion / wheel samples per frame
MaxHostOps == 2        \* things the host does after the app is built: spawn,
                       \* set a flag, send an event
MaxZoom == 2           \* |factor| of a host's Zoom event
MaxQueued == 2         \* events queued for the one tick of TickSpec
MaxCalls == 3          \* calls of Smoother::smooth on a rig
MaxDt == 2             \* elapsed time of a frame, in units of 1/scale

\* ------------------------------------------------------------ Vec2 / Vec3
Abs(n) == IF n < 0 THEN -n ELSE n
Min(a, b) == IF a < b THEN a ELSE b
Max(a, b) == IF a > b THEN a ELSE b

Fix == 5
Vec3Zero == <<0, 0, 0>>
Vec2Zero == <<0, 0>>
Vec3Y == <<0, Fix, 0>>

VAdd(a, b) == <<a[1] + b[1], a[2] + b[2], a[3] + b[3]>>
VSub(a, b) == <<a[1] - b[1], a[2] - b[2], a[3] - b[3]>>
VNeg(a) == <<-a[1], -a[2], -a[3]>>
VScale(k, a) == <<k * a[1], k * a[2], k * a[3]>>
V2Add(a, b) == <<a[1] + b[1], a[2] + b[2]>>
V2Mul(a, b) == <<a[1] * b[1], a[2] * b[2]>>
VDot(a, b) == a[1] * b[1] + a[2] * b[2] + a[3] * b[3]
\* cross product of two fixed-point vectors, rescaled to fixed point
VCross(a, b) ==
    << (a[2] * b[3] - a[3] * b[2]) \div Fix,
       (a[3] * b[1] - a[1] * b[3]) \div Fix,
       (a[1] * b[2] - a[2] * b[1]) \div Fix >>
\* a fixed-point vector times a scalar, as a position offset
Unfix(a) == <<a[1] \div Fix, a[2] \div Fix, a[3] \div Fix>>
Divisible(a) == \A i \in 1..3 : a[i] % Fix = 0
InBox(a) == \A i \in 1..3 : Abs(a[i]) <= MaxCoord

\* sqrt, exact on the squares and rounded down elsewhere
MaxRoot == 8 * MaxCoord
Squares == {r * r : r \in 0..MaxRoot}
IsSquare(n) == n \in Squares
SqrtTab == [n \in 0..(MaxRoot * MaxRoot) |->
              CHOOSE r \in 0..MaxRoot : r * r <= n /\ (r + 1) * (r + 1) > n]
Sqrt(n) == SqrtTab[n]
Length(a) == Sqrt(VDot(a, a))

\* ------------------------------------------------------------ LookAngles
\* pitch index of the pole (pi/2) and the margin set_pitch keeps from it
Pole == 3
UpEps == 1
Turn == 4
SinTab == <<0, 3, 4, 5>>
CosTab == <<5, 4, 3, 0>>
SinQ(q) == <<0, 1, 0, -1>>[(q % Turn) + 1]
CosQ(q) == <<1, 0, -1, 0>>[(q % Turn) + 1]
Sin(p) == IF p < 0 THEN -SinTab[1 - p] ELSE SinTab[p + 1]
Cos(p) == CosTab[Abs(p) + 1]

RawAngles == [yaw : 0..(Turn - 1), pitch : (-Pole)..Pole]

set_yaw(la, yaw) == [la EXCEPT !.yaw = yaw % Turn]
add_yaw(la, delta) == set_yaw(la, la.yaw + delta)
set_pitch(la, pitch) ==
    [la EXCEPT !.pitch = Max(Min(pitch, Pole - UpEps), -Pole + UpEps)]
add_pitch(la, delta) == set_pitch(la, la.pitch + delta)

unit_vector(la) ==
    <<SinQ(la.yaw) * Cos(la.pitch), Sin(la.pitch), CosQ(la.yaw) * Cos(la.pitch)>>

\* every unit vector of the grid
GridUnits == {unit_vector(la) : la \in RawAngles}

\* yaw = atan2(x, z) (0 when the vector is vertical), pitch = asin(y)
AnglesTab ==
    [v \in GridUnits |->
        IF v[1] = 0 /\ v[3] = 0
        THEN [yaw |-> 0, pitch |-> IF v[2] > 0 THEN Pole ELSE -Pole]
        ELSE CHOOSE la \in RawAngles : unit_vector(la) = v]
yaw_and_pitch_from_vector(v) == AnglesTab[v]

from_vector(v) ==
    LET raw == yaw_and_pitch_from_vector(v)
    IN  set_pitch(set_yaw([yaw |-> 0, pitch |-> 0], raw.yaw), raw.pitch)

\* assert_not_looking_up: the pitch has not reached the pole
not_looking_up(la) == Abs(Sin(la.pitch)) # Fix

\* ------------------------------------------------------------ LookTransform
radius(t) == Length(VSub(t.target, t.eye))

\* normalize(target - eye); with eye = target the direction is undefined and
\* every unit vector is a possible outcome
look_direction(t) ==
    LET d == VSub(t.target, t.eye)
        r == Length(d)
    IN  IF r = 0 THEN GridUnits
        ELSE {<<(Fix * d[1]) \div r, (Fix * d[2]) \div r, (Fix * d[3]) \div r>>}

\* the pose is on the grid: its radius and its direction are exact
OnGrid(t) ==
    LET d == VSub(t.target, t.eye)
    IN  /\ InBox(t.eye) /\ InBox(t.target)
        /\ IsSquare(VDot(d, d))
        /\ IF d = Vec3Zero THEN TRUE
           ELSE /\ \A i \in 1..3 : (Fix * d[i]) % Length(d) = 0
                /\ \A u \in look_direction(t) : u \in GridUnits

\* ------------------------------------------------------------ Events<ControlEvent>
\* A control event.  src, dis and norig are history fields, read by no
\* operation: who sent the event, and whether it was unread when the reducer
\* ran with its controller disabled, or with no controlled rig.
Ev(kind, v, src) ==
    [kind |-> kind, v |-> v, src |-> src, dis |-> FALSE, norig |-> FALSE]

\* The queue of one event type: bevy's double buffer (the events sent in the
\* previous frame and in this one) and the reducer's EventReader, which has
\* read the first `seen` events of prev \o cur.
EmptyQueue == [prev |-> <<>>, cur |-> <<>>, seen |-> 0]
Pending(q) == q.prev \o q.cur
Unread(q) == SubSeq(Pending(q), q.seen + 1, Len(Pending(q)))

\* Events::update_system, which add_event puts in the frame's first stage
Events_update(q) ==
    [prev |-> q.cur, cur |-> <<>>, seen |-> Max(q.seen - Len(q.prev), 0)]
\* EventWriter::send
Events_send(q, evs) == [q EXCEPT !.cur = @ \o evs]
\* EventReader::iter: the reader has now read every event sent so far
EventReader_iter(q) == [q EXCEPT !.seen = Len(Pending(q))]

MarkFrom(seq, from, field) ==
    [i \in DOMAIN seq |->
        IF i >= from THEN [seq[i] EXCEPT ![field] = TRUE] ELSE seq[i]]
\* the history mark on the unread events
MarkUnread(q, field) ==
    [q EXCEPT !.prev = MarkFrom(@, q.seen + 1, field),
              !.cur = MarkFrom(@, q.seen + 1 - Len(q.prev), field)]

\* ------------------------------------------------------------ controllers
Fps3dCameraController_default ==
    [enabled |-> TRUE, mouse_rotate_sensitivity |-> <<1, 1>>,
     translate_sensitivity |-> 5, smoothing_weight |-> 9]
OrbitCameraController_default ==
    [enabled |-> TRUE, mouse_rotate_sensitivity |-> <<1, 1>>,
     mouse_translate_sensitivity |-> <<5, 5>>,
     mouse_wheel_zoom_sensitivity |-> 1, smoothing_weight |-> 8]

\* Query::iter().next(): the first entity, in the query's order, that holds
\* every component the query names (0: none)
FirstOf(cs, kinds) ==
    IF \E i \in DOMAIN cs : cs[i].kind \in kinds
    THEN CHOOSE i \in DOMAIN cs :
            /\ cs[i].kind \in kinds
            /\ \A j \in 1..(i - 1) : cs[j].kind \notin kinds
    ELSE 0

Transform_of(e) == [eye |-> e.eye, target |-> e.target]

\* ------------------------------------------------------------ fps_3d reducer
RECURSIVE FpsFold_pole(_, _, _)
\* variant: the loop adds the pitch delta itself and stops at the pole, without
\* add_pitch's margin
FpsFold_pole(evs, look_angles, eye) ==
    IF evs = <<>> THEN [look_angles |-> look_angles, eye |-> eye]
    ELSE LET event == Head(evs)
         IN  IF event.kind = "Rotate"
             THEN FpsFold_pole(Tail(evs),
                               [add_yaw(look_angles, -event.v[1]) EXCEPT
                                   !.pitch = Max(Min(@ - event.v[2], Pole), -Pole)],
                               eye)
             ELSE FpsFold_pole(Tail(evs), look_angles, VAdd(eye, event.v))

RECURSIVE FpsFold(_, _, _)
\* the loop over events.iter() of control_system
FpsFold(evs, look_angles, eye) ==
    IF evs = <<>> THEN [look_angles |-> look_angles, eye |-> eye]
    ELSE LET event == Head(evs)
         IN  IF event.kind = "Rotate"
             THEN FpsFold(Tail(evs),
                          add_pitch(add_yaw(look_angles, -event.v[1]), -event.v[2]),
                          eye)
             ELSE FpsFold(Tail(evs), look_angles, VAdd(eye, event.v))

\* variant: the target is put one unit ahead of the eye, not radius() ahead
FpsReduce_unit(transform, look_vector, evs) ==
    LET f == FpsFold(evs, from_vector(look_vector), transform.eye)
    IN  IF not_looking_up(f.look_angles)
        THEN [panic |-> FALSE,
              eye |-> f.eye,
              target |-> VAdd(f.eye, Unfix(unit_vector(f.look_angles)))]
        ELSE [panic |-> TRUE, eye |-> f.eye, target |-> transform.target]

\* the enabled branch of control_system, from the look direction it derived
FpsReduce(transform, look_vector, evs) ==
    LET f == FpsFold(evs, from_vector(look_vector), transform.eye)
        moved == [eye |-> f.eye, target |-> transform.target]
    IN  IF not_looking_up(f.look_angles)
        THEN [panic |-> FALSE,
              eye |-> f.eye,
              target |-> VAdd(f.eye,
                              Unfix(VScale(radius(moved), unit_vector(f.look_angles))))]
        ELSE [panic |-> TRUE, eye |-> f.eye, target |-> transform.target]

\* variant: control_system without the test of controller.enabled
fps_control_always(controller, transform, look_vector, evs) ==
    FpsReduce(transform, look_vector, evs)

\* control_system on the rig it took from the query
fps_control(controller, transform, look_vector, evs) ==
    IF controller.enabled
    THEN FpsReduce(transform, look_vector, evs)
    ELSE [panic |-> FALSE, eye |-> transform.eye, target |-> transform.target]

\* the enabled branch computes without rounding and stays in the box
FpsExact(transform, look_vector, evs) ==
    LET f == FpsFold(evs, from_vector(look_vector), transform.eye)
        d == VSub(transform.target, f.eye)
    IN  /\ InBox(f.eye)
        /\ IsSquare(VDot(d, d))
        /\ Divisible(VScale(Length(d), unit_vector(f.look_angles)))
        /\ InBox(VAdd(f.eye, Unfix(VScale(Length(d), unit_vector(f.look_angles)))))

\* ------------------------------------------------------------ orbit reducer
\* scene_transform.rotation * v, for a rotation of rot quarter turns about Y
Rotate(rot, v) ==
    <<v[1] * CosQ(rot) + v[3] * SinQ(rot), v[2], v[3] * CosQ(rot) - v[1] * SinQ(rot)>>

RECURSIVE OrbitFold_additive(_, _, _, _, _)
\* variant: the Zoom arm adds the factor to radius_scalar
OrbitFold_additive(evs, look_angles, target, radius_scalar, rot) ==
    IF evs = <<>>
    THEN [look_angles |-> look_angles, target |-> target,
          radius_scalar |-> radius_scalar]
    ELSE LET event == Head(evs)
         IN  CASE event.kind = "Orbit" ->
                    OrbitFold_additive(Tail(evs),
                              add_pitch(add_yaw(look_angles, -event.v[1]), event.v[2]),
                              target, radius_scalar, rot)
               [] event.kind = "TranslateTarget" ->
                    OrbitFold_additive(Tail(evs), look_angles,
                                  VAdd(target,
                                       Unfix(VAdd(VScale(event.v[1], Rotate(rot, <<-Fix, 0, 0>>)),
                                                  VScale(event.v[2], Rotate(rot, Vec3Y))))),
                                  radius_scalar, rot)
               [] OTHER ->
                    OrbitFold_additive(Tail(evs), look_angles, target,
                                       radius_scalar + event.v[1], rot)

RECURSIVE OrbitFold_yaw(_, _, _, _, _)
\* variant: the Orbit arm adds delta.x to the yaw instead of subtracting it
OrbitFold_yaw(evs, look_angles, target, radius_scalar, rot) ==
    IF evs = <<>>
    THEN [look_angles |-> look_angles, target |-> target,
          radius_scalar |-> radius_scalar]
    ELSE LET event == Head(evs)
         IN  CASE event.kind = "Orbit" ->
                    OrbitFold_yaw(Tail(evs),
                                  add_pitch(add_yaw(look_angles, event.v[1]), event.v[2]),
                                  target, radius_scalar, rot)
               [] event.kind = "TranslateTarget" ->
                    OrbitFold_yaw(Tail(evs), look_angles,
                                  VAdd(target,
                                       Unfix(VAdd(VScale(event.v[1], Rotate(rot, <<-Fix, 0, 0>>)),
                                                  VScale(event.v[2], Rotate(rot, Vec3Y))))),
                                  radius_scalar, rot)
               [] OTHER ->
                    OrbitFold_yaw(Tail(evs), look_angles, target,
                                  radius_scalar * event.v[1], rot)

RECURSIVE OrbitFold(_, _, _, _, _)
\* the loop over events.iter() of control_system
OrbitFold(evs, look_angles, target, radius_scalar, rot) ==
    IF evs = <<>>
    THEN [look_angles |-> look_angles, target |-> target,
          radius_scalar |-> radius_scalar]
    ELSE LET event == Head(evs)
         IN  CASE event.kind = "Orbit" ->
                    OrbitFold(Tail(evs),
                              add_pitch(add_yaw(look_angles, -event.v[1]), event.v[2]),
                              target, radius_scalar, rot)
               [] event.kind = "TranslateTarget" ->
                    LET right_dir == Rotate(rot, <<-Fix, 0, 0>>)
                        up_dir == Rotate(rot, Vec3Y)
                    IN  OrbitFold(Tail(evs), look_angles,
                                  VAdd(target,
                                       Unfix(VAdd(VScale(event.v[1], right_dir),
                                                  VScale(event.v[2], up_dir)))),
                                  radius_scalar, rot)
               [] OTHER ->
                    OrbitFold(Tail(evs), look_angles, target,
                              radius_scalar * event.v[1], rot)

\* the enabled branch of control_system, from the look direction it derived
OrbitReduce(transform, look_vector, rot, evs) ==
    LET f == OrbitFold(evs, from_vector(VNeg(look_vector)), transform.target, 1, rot)
        moved == [eye |-> transform.eye, target |-> f.target]
    IN  IF not_looking_up(f.look_angles)
        THEN [panic |-> FALSE,
              eye |-> VAdd(f.target,
                           Unfix(VScale(f.radius_scalar * radius(moved),
                                        unit_vector(f.look_angles)))),
              target |-> f.target]
        ELSE [panic |-> TRUE, eye |-> transform.eye, target |-> f.target]

\* control_system on the rig it took from the query
orbit_control(controller, transform, look_vector, rot, evs) ==
    IF controller.enabled
    THEN OrbitReduce(transform, look_vector, rot, evs)
    ELSE [panic |-> FALSE, eye |-> transform.eye, target |-> transform.target]

\* the enabled branch computes without rounding and stays in the box
OrbitExact(transform, look_vector, rot, evs) ==
    LET f == OrbitFold(evs, from_vector(VNeg(look_vector)), transform.target, 1, rot)
        d == VSub(f.target, transform.eye)
        off == VScale(f.radius_scalar * Length(d), unit_vector(f.look_angles))
    IN  /\ InBox(f.target)
        /\ IsSquare(VDot(d, d))
        /\ Divisible(off)
        /\ InBox(VAdd(f.target, Unfix(off)))

\* ------------------------------------------------------------ default input mappers
\* variant: cursor_delta = event.delta, the last sample alone
V2Sum_last(samples) ==
    IF samples = <<>> THEN Vec2Zero ELSE samples[Len(samples)]

RECURSIVE V2Sum(_)
\* cursor_delta += event.delta, over the frame's MouseMotion samples
V2Sum(samples) ==
    IF samples = <<>> THEN Vec2Zero ELSE V2Add(Head(samples), V2Sum(Tail(samples)))

RECURSIVE ZoomScalar_zero(_, _)
\* variant: scalar starts at 0.0
ZoomScalar_zero(wheel, sensitivity) ==
    IF wheel = <<>> THEN 0
    ELSE (1 + Head(wheel) * sensitivity) * ZoomScalar_zero(Tail(wheel), sensitivity)

RECURSIVE ZoomScalar(_, _)
\* scalar *= 1.0 + event.y * mouse_wheel_zoom_sensitivity, over the MouseWheel samples
ZoomScalar(wheel, sensitivity) ==
    IF wheel = <<>> THEN 1
    ELSE (1 + Head(wheel) * sensitivity) * ZoomScalar(Tail(wheel), sensitivity)

RECURSIVE Translations(_, _, _)
\* the loop over the (key, dir) pairs of the first-person mapper
Translations(pairs, keys, translate_sensitivity) ==
    IF pairs = <<>> THEN <<>>
    ELSE (IF Head(pairs)[1] \in keys
          THEN <<Ev("TranslateEye",
                    Unfix(VScale(translate_sensitivity, Head(pairs)[2])), "map")>>
          ELSE <<>>)
         \o Translations(Tail(pairs), keys, translate_sensitivity)

\* fps_3d default_input_map: the events it sends
fps_default_input_map(cs, keys, motion, look_vector) ==
    LET i == FirstOf(cs, {"bundle"})
    IN  IF i = 0 THEN <<>>
        ELSE IF ~cs[i].controller.enabled THEN <<>>
        ELSE LET controller == cs[i].controller
                 cursor_delta == V2Sum(motion)
                 side == VCross(look_vector, Vec3Y)
             IN  <<Ev("Rotate",
                      V2Mul(controller.mouse_rotate_sensitivity, cursor_delta), "map")>>
                 \o Translations(<< <<"W", look_vector>>, <<"A", VNeg(side)>>,
                                    <<"S", VNeg(look_vector)>>, <<"D", side>> >>,
                                 keys, controller.translate_sensitivity)

\* orbit default_input_map: the events it sends
orbit_default_input_map(cs, keys, buttons, motion, wheel) ==
    LET i == FirstOf(cs, {"bundle", "bare"})
    IN  IF i = 0 THEN <<>>
        ELSE IF ~cs[i].controller.enabled THEN <<>>
        ELSE LET controller == cs[i].controller
                 cursor_delta == V2Sum(motion)
             IN  (IF "LControl" \in keys
                  THEN <<Ev("Orbit",
                            V2Mul(controller.mouse_rotate_sensitivity, cursor_delta),
                            "map")>>
                  ELSE <<>>)
                 \o (IF "Right" \in buttons
                     THEN <<Ev("TranslateTarget",
                               V2Mul(controller.mouse_translate_sensitivity, cursor_delta),
                               "map")>>
                     ELSE <<>>)
                 \o <<Ev("Zoom",
                         <<ZoomScalar(wheel, controller.mouse_wheel_zoom_sensitivity)>>,
                         "map")>>

\* should_consume_input, the run criteria of the orbit mapper's system set
should_consume_input(consume) == IF consume = "Disable" THEN "No" ELSE "Yes"

\* ------------------------------------------------------------ inputs
\* the frame's raw samples: MaxSamples of them, or none
MotionStream == [i \in 1..MaxSamples |-> IF i % 2 = 1 THEN <<1, 0>> ELSE <<0, -1>>]
WheelStream == [i \in 1..MaxSamples |-> IF i % 2 = 1 THEN 1 ELSE -2]
Raw(keys, buttons, motion, wheel) ==
    [keys |-> keys, buttons |-> buttons, motion |-> motion, wheel |-> wheel]
\* no key or button pressed, no sample
NoInput == Raw({}, {}, <<>>, <<>>)
\* what the devices report in a frame
FpsRawInputs ==
    { NoInput, Raw({}, {}, MotionStream, <<>>), Raw({"W"}, {}, <<>>, <<>>),
      Raw({"S"}, {}, MotionStream, <<>>) }
OrbitRawInputs ==
    { NoInput, Raw({"LControl"}, {}, MotionStream, <<>>),
      Raw({}, {}, <<>>, WheelStream),
      Raw({"LControl"}, {"Right"}, MotionStream, WheelStream) }
\* the scene camera's rotation, which the host's transform system writes
Rotations == {0, 1}

\* the poses the host builds rigs with (eye # target)
SpawnPoses ==
    { [eye |-> <<0, 0, 5>>, target |-> <<0, 0, 0>>],
      [eye |-> <<0, 0, 0>>, target |-> <<0, 4, 3>>] }

\* the control events a host system sends itself
HostEvents(style) ==
    IF style = "fps"
    THEN { Ev("Rotate", <<1, -1>>, "host"), Ev("TranslateEye", <<0, 0, -5>>, "host") }
    ELSE { Ev("TranslateTarget", <<5, 0>>, "host"), Ev("Zoom", <<-1>>, "host"),
           Ev("Zoom", <<0>>, "host") }

\* ------------------------------------------------------------ Smoother
\* smoothing weights are tenths: 9 is 0.9; a weight is in [0, 1)
WDen == 10
\* smoothed poses are kept in units of 1/Grain of a grid step
Grain == 10000
ToGrain(t) == [eye |-> VScale(Grain, t.eye), target |-> VScale(Grain, t.target)]

\* Smoother::new: no lag yet (Option::None is the empty sequence)
Smoother_new(weight) == [weight |-> weight, lag |-> <<>>]
\* weight^(dt * scale) as a fraction; dt counts units of 1/scale
Decay(weight, dt) == [num |-> weight ^ dt, den |-> WDen ^ dt]
\* lerp(a, b, 1 - k) on one axis, and whether it is exact in units of 1/Grain
Lerp(a, b, k) == a + ((b - a) * (k.den - k.num)) \div k.den
LerpExact(a, b, k) == ((b - a) * (k.den - k.num)) % k.den = 0
VLerp(a, b, k) == [i \in 1..3 |-> Lerp(a[i], b[i], k)]

\* variant: the blend runs past raw, lerp(lag, raw, 1 + k)
Smoother_smooth_past(smoother, raw, dt) ==
    IF smoother.lag = <<>> THEN [smoother EXCEPT !.lag = <<raw>>]
    ELSE LET k == Decay(smoother.weight, dt)
             over == [num |-> -k.num, den |-> k.den]
             lag == smoother.lag[1]
         IN  [smoother EXCEPT !.lag = <<[eye |-> VLerp(lag.eye, raw.eye, over),
                                         target |-> VLerp(lag.target, raw.target, over)]>>]

\* Smoother::smooth(raw, dt): the first call seeds the lag with raw, a later
\* one blends the lag towards raw; the new lag is what the call returns
Smoother_smooth(smoother, raw, dt) ==
    IF smoother.lag = <<>> THEN [smoother EXCEPT !.lag = <<raw>>]
    ELSE LET k == Decay(smoother.weight, dt)
             lag == smoother.lag[1]
         IN  [smoother EXCEPT !.lag = <<[eye |-> VLerp(lag.eye, raw.eye, k),
                                         target |-> VLerp(lag.target, raw.target, k)]>>]
SmoothExact(smoother, raw, dt) ==
    IF smoother.lag = <<>> THEN TRUE
    ELSE \A i \in 1..3 :
            /\ LerpExact(smoother.lag[1].eye[i], raw.eye[i], Decay(smoother.weight, dt))
            /\ LerpExact(smoother.lag[1].target[i], raw.target[i],
                         Decay(smoother.weight, dt))

\* variant: the bundle's smoother starts with the pose at the origin as its lag
CameraBundle_new_seeded(controller, eye, target) ==
    [kind |-> "bundle", controller |-> controller, eye |-> eye, target |-> target,
     smoother |-> [Smoother_new(controller.smoothing_weight) EXCEPT
                      !.lag = <<[eye |-> Vec3Zero, target |-> Vec3Zero]>>]]

\* Fps3dCameraBundle::new / OrbitCameraBundle::new
CameraBundle_new(controller, eye, target) ==
    [kind |-> "bundle", controller |-> controller, eye |-> eye, target |-> target,
     smoother |-> Smoother_new(controller.smoothing_weight)]
\* an entity the host gave the controller alone (no LookTransform, no
\* Transform, no Smoother)
BareController(controller) ==
    [kind |-> "bare", controller |-> controller, eye |-> Vec3Zero, target |-> Vec3Zero,
     smoother |-> Smoother_new(0)]

DefaultController(style) ==
    IF style = "fps" THEN Fps3dCameraController_default
    ELSE OrbitCameraController_default

\* what the host can spawn: a rig from the bundle, with the controller enabled
\* or not, or (orbit) a bare controller, which only the mapper's query matches
Spawnable(style) ==
    {CameraBundle_new([DefaultController(style) EXCEPT !.enabled = en], p.eye, p.target) :
        en \in BOOLEAN, p \in SpawnPoses}
    \cup (IF style = "orbit"
          THEN {BareController([DefaultController(style) EXCEPT !.enabled = en]) :
                    en \in BOOLEAN}
          ELSE {})

\* the scene the app is built with: no camera yet, or one
InitialScenes(style) == {<<>>} \cup {<<e>> : e \in Spawnable(style)}

\* ------------------------------------------------------------ state
VARIABLES
    plugin,         \* the camera plugin the app added: "fps" or "orbit"
    override_input_system,  \* Fps3dCameraPlugin's field
    cams,           \* the entities carrying the style's controller, in query order
    events,         \* Events<ControlEvent> of the style, with the reducer's reader
    input_behavior, \* the InputBehavior resource: "None" (absent), "Enable", "Disable"
    pc,             \* "build", "idle" (between frames), "update" (in a frame)
    tick,           \* frames started
    ran,            \* the systems of the pair that have run in this frame
    hostOps,        \* things the host has done so far
    panicked,       \* assert_not_looking_up failed
    undefined,      \* a system derived a look direction from eye = target
    devices,        \* what the input devices report in this frame, followed
                    \* until the mapper's system has had its turn
    last            \* history: the last step taken, and what it saw

vars == <<plugin, override_input_system, cams, events, input_behavior, pc, tick,
          ran, hostOps, panicked, undefined, devices, last>>

Step(op, branch, evs) == [op |-> op, branch |-> branch, evs |-> evs, idx |-> 0]

Init ==
    /\ plugin \in {"fps", "orbit"}
    /\ override_input_system \in (IF plugin = "fps" THEN BOOLEAN ELSE {FALSE})
    /\ cams \in InitialScenes(plugin)
    /\ events = EmptyQueue
    /\ input_behavior = "None"
    /\ pc = "build"
    /\ tick = 0
    /\ ran = {}
    /\ hostOps = 0
    /\ panicked = FALSE
    /\ undefined = FALSE
    /\ devices = NoInput
    /\ last = Step("init", "", <<>>)

\* ------------------------------------------------------------ the host
\* set_default_input_behavior: what the startup system inserts
set_default_input_behavior == "Enable"

\* the app runs until a system panics; the model follows it until a system
\* has read an undefined look direction
Running == ~panicked /\ ~undefined

\* the rig's look direction as a system reads it
LookOf(cs, i) ==
    IF i = 0 \/ ~cs[i].controller.enabled THEN {<<0, 0, Fix>>}
    ELSE look_direction(Transform_of(cs[i]))
ReadsUndefined(cs, i) ==
    i # 0 /\ cs[i].controller.enabled /\ radius(Transform_of(cs[i])) = 0

\* the host inserts the resource while it builds the app
HostInsertBehavior(b) ==
    /\ pc = "build" /\ input_behavior = "None"
    /\ input_behavior' = b
    /\ last' = Step("host", "", <<>>)
    /\ UNCHANGED <<devices, plugin, override_input_system, cams, events, pc, tick, ran,
                   hostOps, panicked, undefined>>

\* the startup stage: OrbitCameraPlugin's startup system, and its commands
Startup ==
    /\ pc = "build"
    /\ pc' = "idle"
    /\ input_behavior' =
          IF plugin = "orbit" THEN set_default_input_behavior ELSE input_behavior
    /\ last' = Step("startup", "", <<>>)
    /\ UNCHANGED <<devices, plugin, override_input_system, cams, events, tick, ran, hostOps,
                   panicked, undefined>>

HostSpawn(e) ==
    /\ pc = "idle" /\ Running /\ tick < MaxTicks
    /\ Len(cams) < MaxRigs /\ hostOps < MaxHostOps
    /\ cams' = Append(cams, e)
    /\ hostOps' = hostOps + 1
    /\ last' = Step("host", "", <<>>)
    /\ UNCHANGED <<devices, plugin, override_input_system, events, input_behavior, pc, tick,
                   ran, panicked, undefined>>

HostSetEnabled(i, b) ==
    /\ pc = "idle" /\ Running /\ tick < MaxTicks /\ hostOps < MaxHostOps
    /\ i \in DOMAIN cams /\ cams[i].controller.enabled # b
    /\ cams' = [cams EXCEPT ![i].controller.enabled = b]
    /\ hostOps' = hostOps + 1
    /\ last' = Step("host", "", <<>>)
    /\ UNCHANGED <<devices, plugin, override_input_system, events, input_behavior, pc, tick,
                   ran, panicked, undefined>>

HostSetBehavior(b) ==
    /\ pc = "idle" /\ Running /\ tick < MaxTicks
    /\ input_behavior # b /\ hostOps < MaxHostOps
    /\ input_behavior' = b
    /\ hostOps' = hostOps + 1
    /\ last' = Step("host", "", <<>>)
    /\ UNCHANGED <<devices, plugin, override_input_system, cams, events, pc, tick, ran,
                   panicked, undefined>>

\* a host system sends a control event (ControlEvent is public)
HostSend(e) ==
    /\ pc = "update" /\ Running /\ hostOps < MaxHostOps
    /\ events' = Events_send(events, <<e>>)
    /\ hostOps' = hostOps + 1
    /\ last' = Step("send", "", <<e>>)
    /\ UNCHANGED <<devices, plugin, override_input_system, cams, input_behavior, pc, tick,
                   ran, panicked, undefined>>

\* ------------------------------------------------------------ the frame
\* The frame's first stage: Events::update_system.  The plugin orders its two
\* systems neither by label nor by before/after, so the update stage may run
\* them in either order: `ran` holds those that have run.
First ==
    /\ pc = "idle" /\ Running /\ tick < MaxTicks
    /\ tick' = tick + 1
    /\ pc' = "update"
    /\ events' = Events_update(events)
    /\ ran' = IF plugin = "fps" /\ override_input_system THEN {"input"} ELSE {}
    /\ devices' \in (IF plugin = "fps"
                     THEN (IF override_input_system THEN {NoInput} ELSE FpsRawInputs)
                     ELSE OrbitRawInputs)
    /\ last' = Step("first", "", <<>>)
    /\ UNCHANGED <<plugin, override_input_system, cams, input_behavior, hostOps,
                   panicked, undefined>>

FpsInput ==
    /\ pc = "update" /\ Running /\ plugin = "fps" /\ "input" \notin ran
    /\ \E look_vector \in LookOf(cams, FirstOf(cams, {"bundle"})) :
          LET out == fps_default_input_map(cams, devices.keys, devices.motion,
                                           look_vector)
          IN  /\ events' = Events_send(events, out)
              /\ last' = Step("input", "ran", out)
    /\ undefined' = ReadsUndefined(cams, FirstOf(cams, {"bundle"}))
    /\ ran' = ran \cup {"input"}
    /\ devices' = NoInput
    /\ UNCHANGED <<plugin, override_input_system, cams, input_behavior, pc, tick,
                   hostOps, panicked>>

OrbitInput ==
    /\ pc = "update" /\ Running /\ plugin = "orbit" /\ "input" \notin ran
    /\ IF should_consume_input(input_behavior) = "Yes"
       THEN LET out == orbit_default_input_map(cams, devices.keys, devices.buttons,
                                                  devices.motion, devices.wheel)
               IN  /\ events' = Events_send(events, out)
                   /\ last' = Step("input", "ran", out)
       ELSE /\ events' = events
            /\ last' = Step("input", "skipped", <<>>)
    /\ ran' = ran \cup {"input"}
    /\ devices' = NoInput
    /\ UNCHANGED <<plugin, override_input_system, cams, input_behavior, pc, tick,
                   hostOps, panicked, undefined>>

\* variant: the disabled branch without its `events.iter()`
DropEvents_kept(q) == q

\* `events.iter(); // Drop the events.`
DropEvents(q) == EventReader_iter(q)

\* variant: the reducer loops over the whole query
WriteBack_every(cs, i, r) ==
    [j \in DOMAIN cs |->
        IF cs[j].kind = "bundle"
        THEN [cs[j] EXCEPT !.eye = r.eye, !.target = r.target]
        ELSE cs[j]]

\* the rig taken from the query is the one written
WriteBack(cs, i, r) == [cs EXCEPT ![i].eye = r.eye, ![i].target = r.target]

FpsControl ==
    /\ pc = "update" /\ Running /\ plugin = "fps" /\ "control" \notin ran
    /\ LET i == FirstOf(cams, {"bundle"})
           evs == Unread(events)
       IN  IF i = 0
           THEN /\ events' = MarkUnread(events, "norig")
                /\ cams' = cams
                /\ panicked' = panicked
                /\ last' = Step("control", "norig", evs)
           ELSE \E look_vector \in LookOf(cams, i) :
                LET controller == cams[i].controller
                    transform == Transform_of(cams[i])
                    r == fps_control(controller, transform, look_vector, evs)
                IN  /\ controller.enabled => FpsExact(transform, look_vector, evs)
                    /\ IF r.panic THEN TRUE ELSE OnGrid(r)
                    /\ cams' = WriteBack(cams, i, r)
                    /\ panicked' = r.panic
                    /\ events' = IF controller.enabled
                                 THEN EventReader_iter(events)
                                 ELSE DropEvents(MarkUnread(events, "dis"))
                    /\ last' = [Step("control",
                                     IF controller.enabled THEN "enabled" ELSE "disabled",
                                     evs) EXCEPT !.idx = i]
    /\ undefined' = ReadsUndefined(cams, FirstOf(cams, {"bundle"}))
    /\ ran' = ran \cup {"control"}
    /\ UNCHANGED <<devices, plugin, override_input_system, input_behavior, pc, tick, hostOps>>

OrbitControl ==
    /\ pc = "update" /\ Running /\ plugin = "orbit" /\ "control" \notin ran
    /\ LET i == FirstOf(cams, {"bundle"})
           evs == Unread(events)
       IN  IF i = 0
           THEN /\ events' = MarkUnread(events, "norig")
                /\ cams' = cams
                /\ panicked' = panicked
                /\ last' = Step("control", "norig", evs)
           ELSE \E look_vector \in LookOf(cams, i),
                   rot \in Rotations :
                LET controller == cams[i].controller
                    transform == Transform_of(cams[i])
                    r == orbit_control(controller, transform, look_vector, rot, evs)
                IN  /\ controller.enabled => OrbitExact(transform, look_vector, rot, evs)
                    /\ IF r.panic THEN TRUE ELSE OnGrid(r)
                    /\ cams' = WriteBack(cams, i, r)
                    /\ panicked' = r.panic
                    /\ events' = IF controller.enabled
                                 THEN EventReader_iter(events)
                                 ELSE DropEvents(MarkUnread(events, "dis"))
                    /\ last' = [Step("control",
                                     IF controller.enabled THEN "enabled" ELSE "disabled",
                                     evs) EXCEPT !.idx = i]
    /\ undefined' = ReadsUndefined(cams, FirstOf(cams, {"bundle"}))
    /\ ran' = ran \cup {"control"}
    /\ UNCHANGED <<devices, plugin, override_input_system, input_behavior, pc, tick, hostOps>>

\* the update stage is over once both systems have run
EndFrame ==
    /\ pc = "update" /\ Running /\ ran = {"input", "control"}
    /\ pc' = "idle"
    /\ last' = Step("end", "", <<>>)
    /\ UNCHANGED <<devices, plugin, override_input_system, cams, events, input_behavior, tick,
                   ran, hostOps, panicked, undefined>>

Next ==
    \/ \E b \in {"Enable", "Disable"} : HostInsertBehavior(b)
    \/ Startup
    \/ \E e \in Spawnable(plugin) : HostSpawn(e)
    \/ \E i \in 1..MaxRigs, b \in BOOLEAN : HostSetEnabled(i, b)
    \/ \E b \in {"Enable", "Disable"} : HostSetBehavior(b)
    \/ \E e \in HostEvents(plugin) : HostSend(e)
    \/ First
    \/ FpsInput
    \/ OrbitInput
    \/ FpsControl
    \/ OrbitControl
    \/ EndFrame

Spec == Init /\ [][Next]_vars

\* ------------------------------------------------------------ properties
Bundles(cs) == {i \in DOMAIN cs : cs[i].kind = "bundle"}
Poses(cs) == [i \in DOMAIN cs |-> Transform_of(cs[i])]
ReducerRan(branch) == last.op = "control" /\ last.branch = branch

\* C1: a reducer that finds its rig's controller disabled leaves every eye and
\* target as they were, whatever events were queued (both styles).
C1_DisabledReducerKeepsPose ==
    [][(last'.op = "control" /\ last'.branch = "disabled") => Poses(cams') = Poses(cams)]_vars
C1_Witness == ReducerRan("disabled") /\ Len(last.evs) > 0

\* C2: an event the reducer saw while its controller was disabled is dropped
\* in that frame: no later enabled run of the reducer folds it into the pose.
C2_DroppedEventsNeverApplied ==
    ReducerRan("enabled") => \A k \in DOMAIN last.evs : ~last.evs[k].dis
C2_Witness ==
    /\ ReducerRan("enabled") /\ Len(last.evs) > 0
    /\ \E k \in DOMAIN events.prev : events.prev[k].dis

\* C3 (as the spec states it): eye # target for every rig in every reachable
\* state.
C3_EyeNeverMeetsTarget ==
    \A i \in Bundles(cams) : cams[i].eye # cams[i].target

\* C4: assert_not_looking_up never fails, and the pitch the reducer leaves a
\* rig with (read from its pose, where the pose has a direction) never reaches
\* the pole.
C4_NeverLooksUp ==
    /\ ~panicked
    /\ (ReducerRan("enabled") /\ radius(Transform_of(cams[last.idx])) > 0) =>
          \A u \in look_direction(Transform_of(cams[last.idx])) : Abs(u[2]) # Fix
C4_Witness ==
    /\ ReducerRan("enabled")
    /\ \E k \in DOMAIN last.evs :
          last.evs[k].kind \in {"Rotate", "Orbit"} /\ last.evs[k].v[2] # 0
    /\ radius(Transform_of(cams[last.idx])) > 0
    /\ \E u \in look_direction(Transform_of(cams[last.idx])) :
          Abs(u[2]) = Sin(Pole - UpEps)

\* C5 (as the spec states it): while the flag is Disable no default input
\* mapper, of either style, runs or sends a control event.
C5_DisableGatesEveryMapper ==
    (last.op = "input" /\ input_behavior = "Disable") =>
        (last.branch = "skipped" /\ last.evs = <<>>)

\* C6 (as the spec states it): once the flag is Disable, only the host changes
\* it.
C6_DisableIsSticky ==
    [][(input_behavior = "Disable" /\ last'.op # "host") =>
          input_behavior' = "Disable"]_vars

\* C7 (as the spec states it): no event the mapper sent is still unread by the
\* reducer when the next frame starts.
C7_NoMapperEventPendingAtFrameStart ==
    last.op = "first" =>
        \A k \in DOMAIN Unread(events) : Unread(events)[k].src # "map"

\* C8 (as the spec states it): an event that was queued when the reducer ran
\* without a rig is never applied to a rig by a later run.
C8_NoRigEventsNeverApplied ==
    ReducerRan("enabled") => \A k \in DOMAIN last.evs : ~last.evs[k].norig

\* C9: a run of the reducer changes the eye and target of at most one rig, the
\* first the query returns.
C9_OnlyFirstRigMutated ==
    [][last'.op = "control" =>
          \A j \in DOMAIN cams :
              Transform_of(cams'[j]) # Transform_of(cams[j]) =>
                  (cams[j].kind = "bundle" /\ \A k \in 1..(j - 1) : cams[k].kind # "bundle")]_vars
C9_Witness ==
    /\ ReducerRan("enabled") /\ Len(last.evs) > 0
    /\ Cardinality(Bundles(cams)) >= 2
    /\ \E i, j \in Bundles(cams) :
          /\ i < j /\ last.idx = i
          /\ Transform_of(cams[i]) \notin SpawnPoses
          /\ Transform_of(cams[j]) \in SpawnPoses

\* ------------------------------------------------------------ one orbit tick of two zooms
\* The orbit reducer as a function of the pose and of two zoom factors: a rig
\* at any pose of the grid, the mapper gated off, and the host's Zoom(a),
\* Zoom(b) queued when control_system runs.
ZoomFactors == (-MaxZoom)..MaxZoom
ZoomPoses ==
    {t \in {[eye |-> VAdd(tg, Unfix(VScale(r, u))), target |-> tg] :
                tg \in {Vec3Zero, <<1, -2, 0>>}, r \in {1, Fix}, u \in GridUnits} :
        OnGrid(t) /\ radius(t) > 0}

ZoomInit ==
    /\ plugin = "orbit"
    /\ override_input_system = FALSE
    /\ \E t \in ZoomPoses :
          cams = <<CameraBundle_new(OrbitCameraController_default, t.eye, t.target)>>
    /\ \E a \in ZoomFactors, b \in ZoomFactors :
          /\ events = Events_send(EmptyQueue,
                                  <<Ev("Zoom", <<a>>, "host"), Ev("Zoom", <<b>>, "host")>>)
          /\ last = Step("send", "", <<Ev("Zoom", <<b>>, "host")>>)
    /\ input_behavior = "Disable"
    /\ pc = "update"
    /\ tick = 1
    /\ ran = {"input"}
    /\ hostOps = 2
    /\ panicked = FALSE
    /\ undefined = FALSE
    /\ devices = NoInput

ZoomNext == OrbitControl \/ EndFrame

ZoomSpec == ZoomInit /\ [][ZoomNext]_vars

\* the reducer has just folded exactly Zoom(a), Zoom(b)
TwoZooms(l) ==
    /\ l.op = "control" /\ l.branch = "enabled"
    /\ Len(l.evs) = 2 /\ l.evs[1].kind = "Zoom" /\ l.evs[2].kind = "Zoom"

\* the tick from `pre` that receives the one event Zoom(k) can end in `post`
OneZoomYields(pre, k, post) ==
    \E look_vector \in look_direction(pre), rot \in Rotations :
        LET r == OrbitReduce(pre, look_vector, rot, <<Ev("Zoom", <<k>>, "host")>>)
        IN  ~r.panic /\ r.eye = post.eye /\ r.target = post.target

\* C10 (as the spec states it): Zoom(a), Zoom(b) in one tick end where one
\* Zoom(a*b) from the same pose ends, and the radius is then a*b times the
\* radius before the tick.
C10_ZoomsComposeToProduct ==
    [][TwoZooms(last') =>
          LET a == last'.evs[1].v[1]
              b == last'.evs[2].v[1]
              pre == Transform_of(cams[last'.idx])
              post == Transform_of(cams'[last'.idx])
          IN  /\ OneZoomYields(pre, a * b, post)
              /\ radius(post) = (a * b) * radius(pre)]_vars

\* C10, amended: ... and the radius is then |a*b| times the radius before the
\* tick (the distance from eye to target is never negative).
C10_ZoomsComposeToAbsProduct ==
    [][TwoZooms(last') =>
          LET a == last'.evs[1].v[1]
              b == last'.evs[2].v[1]
              pre == Transform_of(cams[last'.idx])
              post == Transform_of(cams'[last'.idx])
          IN  /\ OneZoomYields(pre, a * b, post)
              /\ radius(post) = Abs(a * b) * radius(pre)]_vars
C10_Witness ==
    /\ TwoZooms(last)
    /\ last.evs[1].v[1] * last.evs[2].v[1] < -1
    /\ radius(Transform_of(cams[last.idx])) > 1

\* ------------------------------------------------------------ one reducer tick
\* A reducer as a function of the pose and of the tick's events: one enabled
\* rig at any pose of the grid, the mapper's turn over, and up to MaxQueued
\* events of the style queued when control_system runs.
TickPoses ==
    {t \in {[eye |-> VAdd(tg, Unfix(VScale(r, u))), target |-> tg] :
                tg \in {Vec3Zero, <<1, -2, 0>>}, r \in {1, 4, Fix}, u \in GridUnits} :
        OnGrid(t) /\ radius(t) > 0}
Steps == (-1)..1
TickEvents(style) ==
    IF style = "fps"
    THEN {Ev("Rotate", <<x, y>>, "host") : x \in Steps, y \in Steps}
         \cup {Ev("TranslateEye", v, "host") :
                  v \in {<<3, 0, 0>>, <<-3, 0, 0>>, <<0, 3, 0>>, <<0, 0, 3>>,
                         <<0, 0, -1>>, <<0, 0, 5>>, <<0, 0, -5>>}}
    ELSE {Ev("Orbit", <<x, y>>, "host") : x \in Steps, y \in Steps}
         \cup {Ev("TranslateTarget", v, "host") :
                  v \in {<<Fix, 0>>, <<-Fix, 0>>, <<0, Fix>>, <<0, -Fix>>}}
         \cup {Ev("Zoom", <<k>>, "host") : k \in ZoomFactors}
TickQueues(style) ==
    UNION {[1..n -> TickEvents(style)] : n \in 0..MaxQueued}

TickInit ==
    /\ plugin \in {"fps", "orbit"}
    /\ override_input_system = FALSE
    /\ \E t \in TickPoses :
          cams = <<CameraBundle_new(DefaultController(plugin), t.eye, t.target)>>
    /\ \E evs \in TickQueues(plugin) :
          /\ events = Events_send(EmptyQueue, evs)
          /\ hostOps = Len(evs)
          /\ last = Step("send", "", evs)
    /\ input_behavior = "None"
    /\ pc = "update"
    /\ tick = 1
    /\ ran = {"input"}
    /\ panicked = FALSE
    /\ undefined = FALSE
    /\ devices = NoInput

TickNext == FpsControl \/ OrbitControl \/ EndFrame

TickSpec == TickInit /\ [][TickNext]_vars

\* the enabled reducer of `style` has just folded a non-empty queue of events,
\* all of them of the kinds `kinds`
Folded(l, style, kinds) ==
    /\ plugin = style /\ l.op = "control" /\ l.branch = "enabled"
    /\ Len(l.evs) > 0 /\ \A k \in DOMAIN l.evs : l.evs[k].kind \in kinds

RECURSIVE SumOf(_)
SumOf(evs) == IF evs = <<>> THEN Vec3Zero ELSE VAdd(Head(evs).v, SumOf(Tail(evs)))

\* C11: a first-person tick of Rotate events alone leaves the eye where it
\* was and the radius as it was.
C11_RotationKeepsEyeAndRadius ==
    [][Folded(last', "fps", {"Rotate"}) =>
          LET pre == Transform_of(cams[last'.idx])
              post == Transform_of(cams'[last'.idx])
          IN  post.eye = pre.eye /\ radius(post) = radius(pre)]_vars
C11_Witness ==
    /\ Folded(last, "fps", {"Rotate"})
    /\ \E k \in DOMAIN last.evs : last.evs[k].v[1] # 0
    /\ radius(Transform_of(cams[last.idx])) > 1

\* the yaw and pitch of the direction from target to eye
EyeAngles(t) ==
    yaw_and_pitch_from_vector(VNeg(CHOOSE u \in look_direction(t) : TRUE))
\* the tick's events are one Orbit and Zooms of a positive product, and the
\* pose has a direction that is not vertical
OneOrbit(l, pre) ==
    /\ Folded(l, "orbit", {"Orbit", "Zoom"})
    /\ Cardinality({k \in DOMAIN l.evs : l.evs[k].kind = "Orbit"}) = 1
    /\ \A k \in DOMAIN l.evs : l.evs[k].kind = "Zoom" => l.evs[k].v[1] > 0
    /\ radius(pre) > 0
    /\ Abs(EyeAngles(pre).pitch) # Pole
OrbitDelta(l) == l.evs[CHOOSE k \in DOMAIN l.evs : l.evs[k].kind = "Orbit"].v
\* the spec's example, on the grid: one yaw step for its 0.1 rad
ExampleTick(l, pre) ==
    /\ Folded(l, "orbit", {"Orbit", "Zoom"}) /\ Len(l.evs) = 2
    /\ l.evs[1].kind = "Orbit" /\ l.evs[1].v = <<1, 0>>
    /\ l.evs[2].kind = "Zoom" /\ l.evs[2].v = <<2>>
    /\ pre = [eye |-> <<0, 0, Fix>>, target |-> Vec3Zero]

C17_TranslationKeepsLookDirection ==
    [][(/\ Folded(last', "fps", {"TranslateEye"})
        /\ Abs(EyeAngles(Transform_of(cams[last'.idx])).pitch) # Pole) =>
          LET pre == Transform_of(cams[last'.idx])
              post == Transform_of(cams'[last'.idx])
          IN  /\ post.eye = VAdd(pre.eye, SumOf(last'.evs))
              /\ look_direction(post) = look_direction(pre)]_vars

\* the tick's one event is a TranslateEye at a right angle to the look direction
Strafe(l, pre) ==
    /\ Folded(l, "fps", {"TranslateEye"}) /\ Len(l.evs) = 1
    /\ l.evs[1].v # Vec3Zero
    /\ radius(pre) > 0
    /\ \A u \in look_direction(pre) : VDot(l.evs[1].v, u) = 0

\* C18 (as the spec states it): a strafe moves the target by the delta the
\* eye moved by, and leaves the radius as it was.
C18_StrafeMovesRigRigidly ==
    [][Strafe(last', Transform_of(cams[last'.idx])) =>
          LET pre == Transform_of(cams[last'.idx])
              post == Transform_of(cams'[last'.idx])
          IN  /\ post.target = VAdd(pre.target, last'.evs[1].v)
              /\ radius(post) = radius(pre)]_vars

\* ------------------------------------------------------------ the mappers' turn
\* the components the style's mapper and reducer ask their queries for, as
\* the kinds of entity that hold them
MapperQuery(style) == IF style = "fps" THEN {"bundle"} ELSE {"bundle", "bare"}
ReducerQuery(style) == {"bundle"}
MapperRan(l) == l.op = "input" /\ l.branch = "ran"
KindsOf(evs) == [k \in DOMAIN evs |-> evs[k].kind]
ValuesOf(evs) == [k \in DOMAIN evs |-> evs[k].v]

\* C13 (as the spec states it): a mapper that runs while the controlled rig is
\* disabled, or while there is no rig, sends no control event.
C13_MapperRespectsEnabled ==
    LET i == FirstOf(cams, ReducerQuery(plugin))
    IN  (MapperRan(last) /\ (IF i = 0 THEN TRUE ELSE ~cams[i].controller.enabled))
            => last.evs = <<>>

RECURSIVE TotalOf(_)
\* the samples' deltas, added up
TotalOf(samples) ==
    IF samples = <<>> THEN <<0, 0>>
    ELSE <<Head(samples)[1] + TotalOf(Tail(samples))[1],
           Head(samples)[2] + TotalOf(Tail(samples))[2]>>

\* C14: whatever the motion samples of the frame, a mapper sends at most one
\* rotation event and at most one TranslateTarget, each carrying the
\* sensitivity times the sum of all the samples' deltas.
C14_MapperSumsSamples ==
    [][MapperRan(last') =>
          LET out == last'.evs
              total == TotalOf(devices.motion)
              c == cams[FirstOf(cams, MapperQuery(plugin))].controller
          IN  /\ Cardinality({k \in DOMAIN out : out[k].kind \in {"Rotate", "Orbit"}}) <= 1
              /\ Cardinality({k \in DOMAIN out : out[k].kind = "TranslateTarget"}) <= 1
              /\ \A k \in DOMAIN out :
                    /\ out[k].kind \in {"Rotate", "Orbit"} =>
                          out[k].v = <<c.mouse_rotate_sensitivity[1] * total[1],
                                       c.mouse_rotate_sensitivity[2] * total[2]>>
                    /\ out[k].kind = "TranslateTarget" =>
                          out[k].v = <<c.mouse_translate_sensitivity[1] * total[1],
                                       c.mouse_translate_sensitivity[2] * total[2]>>]_vars
C14_Witness ==
    /\ MapperRan(last)
    /\ \E k \in DOMAIN last.evs :
          /\ last.evs[k].kind \in {"Rotate", "Orbit"}
          /\ last.evs[k].v[1] # 0 /\ last.evs[k].v[2] # 0
          /\ MaxSamples > 1

\* what a mapper sends in a frame without input, as kinds and values
IdleKinds(style) == IF style = "fps" THEN <<"Rotate">> ELSE <<"Zoom">>
IdleValues(style) == IF style = "fps" THEN << <<0, 0>> >> ELSE << <<1>> >>
IsIdleEvent(e) ==
    \/ e.kind = "Rotate" /\ e.v = <<0, 0>>
    \/ e.kind = "Zoom" /\ e.v = <<1>>

\* C19: in a frame without input the mapper of an enabled rig sends only
\* Rotate((0,0)) (first-person) or Zoom(1.0) (orbit), and a reducer that
\* folds nothing but such events leaves eye and target, and so the radius, of
\* a rig whose pitch is inside the clamp as they were.
C19_IdleTickIsFixedPoint ==
    [][/\ (/\ MapperRan(last') /\ devices = NoInput /\ last'.evs # <<>>) =>
             /\ KindsOf(last'.evs) = IdleKinds(plugin)
             /\ ValuesOf(last'.evs) = IdleValues(plugin)
       /\ (/\ last'.op = "control" /\ last'.branch = "enabled"
           /\ \A k \in DOMAIN last'.evs : IsIdleEvent(last'.evs[k])
           /\ radius(Transform_of(cams[last'.idx])) > 0
           /\ Abs(EyeAngles(Transform_of(cams[last'.idx])).pitch) <= Pole - UpEps) =>
             Poses(cams') = Poses(cams)]_vars
C19_Witness ==
    /\ ReducerRan("enabled") /\ Len(last.evs) > 0
    /\ \A k \in DOMAIN last.evs : IsIdleEvent(last.evs[k]) /\ last.evs[k].src = "map"
    /\ radius(Transform_of(cams[last.idx])) > 0
    /\ tick = MaxTicks

\* C20 (as the spec states it): the entity whose controller the mapper reads
\* is the entity whose LookTransform the reducer writes.
C20_MapperAndReducerShareRig ==
    MapperRan(last) =>
        FirstOf(cams, MapperQuery(plugin)) = FirstOf(cams, ReducerQuery(plugin))

\* ------------------------------------------------------------ smoothing a rig
\* a rig as its bundle builds it, with any smoothing weight, an event or none
\* queued for its reducer, and the smoothing system run once a frame
SmoothWeights == {0, 5, 8, 9}
SmoothPoses == {t \in TickPoses : t.target = Vec3Zero}
SmoothQueues(style) == {<<>>} \cup {<<e>> : e \in TickEvents(style)}

SmoothInit ==
    /\ plugin \in {"fps", "orbit"}
    /\ override_input_system = FALSE
    /\ \E t \in SmoothPoses, w \in SmoothWeights :
          cams = <<CameraBundle_new([DefaultController(plugin) EXCEPT
                                        !.smoothing_weight = w], t.eye, t.target)>>
    /\ \E evs \in SmoothQueues(plugin) :
          /\ events = Events_send(EmptyQueue, evs)
          /\ hostOps = Len(evs)
          /\ last = Step("send", "", evs)
    /\ input_behavior = "None"
    /\ pc = "update"
    /\ tick = 1
    /\ ran = {"input"}
    /\ panicked = FALSE
    /\ undefined = FALSE
    /\ devices = NoInput

\* the smoothing system: smooth(raw, dt) on the rig's Smoother with the rig's
\* LookTransform as raw; the call ends the frame
Smooth(dt) ==
    /\ pc = "update" /\ Running /\ tick <= MaxCalls
    /\ LET i == FirstOf(cams, {"bundle"})
           raw == ToGrain(Transform_of(cams[i]))
           smoother == Smoother_smooth(cams[i].smoother, raw, dt)
       IN  /\ i # 0
           /\ SmoothExact(cams[i].smoother, raw, dt)
           /\ cams' = [cams EXCEPT ![i].smoother = smoother]
           /\ last' = [Step("smooth",
                            IF cams[i].smoother.lag = <<>> THEN "first" ELSE "blend",
                            smoother.lag) EXCEPT !.idx = i]
    /\ tick' = tick + 1
    /\ ran' = {"input"}
    /\ UNCHANGED <<devices, plugin, override_input_system, events, input_behavior, pc,
                   hostOps, panicked, undefined>>

SmoothNext == FpsControl \/ OrbitControl \/ \E dt \in 1..MaxDt : Smooth(dt)

SmoothSpec == SmoothInit /\ [][SmoothNext]_vars

\* C15: the first call of smooth on a rig the bundle built finds the lag
\* empty, stores the rig's pose as the lag and returns it unchanged, whatever
\* the smoothing weight.
C15_FirstSmoothIsIdentity ==
    [][(last'.op = "smooth" /\ tick = 1) =>
          LET raw == ToGrain(Transform_of(cams[last'.idx]))
          IN  /\ cams[last'.idx].smoother.lag = <<>>
              /\ cams'[last'.idx].smoother.lag = <<raw>>
              /\ last'.evs = <<raw>>]_vars
C15_Witness ==
    /\ last.op = "smooth" /\ tick = 2
    /\ cams[last.idx].controller.smoothing_weight = 9
    /\ Transform_of(cams[last.idx]) \notin SmoothPoses

\* the six coordinates of a pose
Axes(t) == t.eye \o t.target

\* C16: a call of smooth on a seeded Smoother with weight below one leaves
\* every coordinate of the output at most as far from raw as the lag was, on
\* the side of raw the lag was on, and at most weight times as far: held
\* against a constant raw the distance shrinks to zero.
C16_SmoothingApproachesRaw ==
    [][(last'.op = "smooth" /\ cams[last'.idx].smoother.lag # <<>>) =>
          LET raw == Axes(ToGrain(Transform_of(cams[last'.idx])))
              old == Axes(cams[last'.idx].smoother.lag[1])
              new == Axes(cams'[last'.idx].smoother.lag[1])
              weight == cams[last'.idx].smoother.weight
          IN  /\ weight \in 0..(WDen - 1)
              /\ last'.evs = cams'[last'.idx].smoother.lag
              /\ \A a \in 1..6 :
                    /\ Abs(new[a] - raw[a]) <= Abs(old[a] - raw[a])
                    /\ old[a] <= raw[a] => new[a] <= raw[a]
                    /\ old[a] >= raw[a] => new[a] >= raw[a]
                    /\ WDen * Abs(new[a] - raw[a]) <= weight * Abs(old[a] - raw[a])]_vars
C16_Witness ==
    /\ last.op = "smooth" /\ last.branch = "blend" /\ tick = MaxCalls + 1
    /\ cams[last.idx].smoother.weight > 0
    /\ cams[last.idx].smoother.lag[1] # ToGrain(Transform_of(cams[last.idx]))
====
